---- MODULE Spec2Model ----
(***************************************************************************)
(* Model of stvimhelper.py: the handler registry (QueryHandler), the URL   *)
(* matcher (ServiceMatch.url_matches), the identifier extractors of the    *)
(* six registered handler classes, and the `review` command.               *)
(*                                                                         *)
(* Strings are sequences of tokens.  A token is a single punctuation       *)
(* character or a run of characters of one character class (a word of      *)
(* letters, a digit).  No token is a prefix of another one, so a token     *)
(* sequence spells exactly one string, and since every token is            *)
(* homogeneous in the character classes the regular expressions of the     *)
(* source use ([A-Za-z], [A-Za-z0-9], \d, [^/]) and in the delimiters      *)
(* urlparse looks for, matching on tokens is matching on characters.       *)
(***************************************************************************)
EXTENDS Integers, Sequences, FiniteSets, TLC

(* ---------------------------------------------------------------- tokens *)

Alpha ==
  {"https", "smartthings", "atlassian", "net", "github", "com",
   "ecodesamsung", "wiki", "spaces", "pages", "browse", "pull", "issues", "K"}

Digit ==
  {"7"}

Punct ==
  {":", "/", ".", "-", "[", "]", "?", "#"}

Tokens ==
  Alpha \cup Digit \cup Punct

Alnum ==
  Alpha \cup Digit

NonSlash ==
  Tokens \ {"/"}

\* scheme_chars of urllib.parse: letters, digits and "+-."
SchemeChars ==
  Alpha \cup Digit \cup {"-", "."}

DigitVal(t) ==
  IF t = "7" THEN 7 ELSE 0

(* --------------------------------------------------------- python values *)

PyNone ==
  [tag |-> "None"]

PyStr(s) ==
  [tag |-> "str", val |-> s]

PyBool(b) ==
  [tag |-> "bool", val |-> b]

PyInfo(cls, o, n, i) ==
  [tag |-> cls, org |-> o, name |-> n, ident |-> i]

Raised(e) ==
  [tag |-> "raise", exc |-> e]

\* bool(x): None is false, a str is true iff it is not empty, an instance of a
\* class that defines neither __bool__ nor __len__ (PrInfo, IssueInfo) is true.
\* An exception raised while computing x propagates.
PyTruth(x) ==
  CASE x.tag = "raise" -> x
    [] x.tag = "None"  -> PyBool(FALSE)
    [] x.tag = "str"   -> PyBool(Len(x.val) > 0)
    [] OTHER           -> PyBool(TRUE)

(* ------------------------------------------------------ string utilities *)

RECURSIVE IndexFrom(_, _, _)
\* least k >= i with s[k] \in D, or Len(s) + 1 when there is none (str.find)
IndexFrom(s, i, D) ==
  IF i > Len(s) THEN Len(s) + 1
  ELSE IF s[i] \in D THEN i
  ELSE IndexFrom(s, i + 1, D)

RECURSIVE RunEnd(_, _, _)
\* index of the last token of the longest run of tokens of class C that
\* starts at i; i - 1 when the run is empty (a greedy C* starting at i)
RunEnd(s, i, C) ==
  IF i > Len(s) THEN i - 1
  ELSE IF s[i] \in C THEN RunEnd(s, i + 1, C)
  ELSE i - 1

StartsWithAt(s, i, lit) ==
  /\ i + Len(lit) - 1 <= Len(s)
  /\ \A k \in 1..Len(lit) : s[i + k - 1] = lit[k]

RECURSIVE IntOf(_)
\* int(s) for a run of decimal digits
IntOf(s) ==
  IF s = <<>> THEN 0
  ELSE IntOf(SubSeq(s, 1, Len(s) - 1)) * 10 + DigitVal(s[Len(s)])

(* -------------------------------------------------------------- urlparse *)

\* urllib.parse.urlparse(url), reduced to the two components the program
\* reads (netloc, path) and to its one failure (ValueError, raised for a
\* netloc with an unbalanced square bracket).  The steps are urlsplit's:
\* split off the scheme, then the netloc after "//", then the fragment after
\* "#" and the query after "?".

\* the scheme ends at the first ":", at index i, when the text before it
\* starts with a letter and consists of scheme characters; 0 when there is none
SchemeEndAt(u, i) ==
  IF /\ i <= Len(u)
     /\ i > 1
     /\ u[1] \in Alpha
     /\ \A k \in 1..(i - 1) : u[k] \in SchemeChars
  THEN i
  ELSE 0

SchemeEnd(u) ==
  SchemeEndAt(u, IndexFrom(u, 1, {":"}))

HasToken(s, t) ==
  \E k \in 1..Len(s) : s[k] = t

\* the bracket check on the netloc, then the path: the rest up to "?" or "#"
UrlResult(netloc, rest) ==
  IF HasToken(netloc, "[") # HasToken(netloc, "]")
  THEN [raise |-> TRUE, netloc |-> <<>>, path |-> <<>>]
  ELSE [raise |-> FALSE, netloc |-> netloc,
        path |-> SubSeq(rest, 1, IndexFrom(rest, 1, {"?", "#"}) - 1)]

\* _splitnetloc: the netloc runs from after "//" to the delimiter at delim
SplitNetloc(s, delim) ==
  UrlResult(SubSeq(s, 3, delim - 1), SubSeq(s, delim, Len(s)))

\* s is the url after its scheme
UrlSplit(s) ==
  IF StartsWithAt(s, 1, <<"/", "/">>)
  THEN SplitNetloc(s, IndexFrom(s, 3, {"/", "?", "#"}))
  ELSE UrlResult(<<>>, s)

UrlParse(u) ==
  UrlSplit(SubSeq(u, SchemeEnd(u) + 1, Len(u)))

(* -------------------------------------------------------------- services *)

Variants ==
  {"Confluence", "Jira", "GithubPullRequest", "EcodesamsungPullRequest",
   "GithubIssue", "EcodesamsungIssue"}

service(h) ==
  CASE h = "Confluence"              -> "ConfluenceService"
    [] h = "Jira"                    -> "JiraService"
    [] h = "GithubPullRequest"       -> "GithubService"
    [] h = "GithubIssue"             -> "GithubService"
    [] h = "EcodesamsungPullRequest" -> "EcodesamsungService"
    [] h = "EcodesamsungIssue"       -> "EcodesamsungService"

AtlassianUrl ==
  <<"https", ":", "/", "/", "smartthings", ".", "atlassian", ".", "net">>

GithubUrl ==
  <<"https", ":", "/", "/", "github", ".", "com">>

EcodesamsungUrl ==
  <<"https", ":", "/", "/", "github", ".", "ecodesamsung", ".", "com">>

url(svc) ==
  CASE svc \in {"ConfluenceService", "JiraService"} -> AtlassianUrl
    [] svc = "GithubService"                         -> GithubUrl
    [] svc = "EcodesamsungService"                   -> EcodesamsungUrl

\* query_netloc == our_netloc, q and o being the two parse results
NetlocsEqual(q, o) ==
  IF q.raise \/ o.raise THEN Raised("ValueError")
  ELSE PyBool(q.netloc = o.netloc)

\* the comparison of the hosts left out
url_matches_AnyHost(svc, query) ==
  IF Len(url(svc)) > 0
  THEN (IF UrlParse(query).raise THEN Raised("ValueError") ELSE PyBool(TRUE))
  ELSE PyBool(FALSE)

\* ServiceMatch.url_matches: a bool, or the ValueError of urlparse(query)
url_matches(svc, query) ==
  IF Len(url(svc)) > 0
  THEN NetlocsEqual(UrlParse(query), UrlParse(url(svc)))
  ELSE PyBool(FALSE)

(* --------------------------------------------------- regular expressions *)

NoMatch ==
  [ok |-> FALSE, groups |-> <<>>]

Match(gs) ==
  [ok |-> TRUE, groups |-> gs]

\* the pattern with (\d*) in place of (\d+): the group may be empty
ReConfluence_EmptyGroup(path) ==
  LET lit1 == <<"/", "wiki", "/", "spaces", "/">>
      lit2 == <<"/", "pages", "/">>
      a    == Len(lit1) + 1
      b    == RunEnd(path, a, NonSlash)
      c    == b + Len(lit2) + 1
  IN  IF /\ StartsWithAt(path, 1, lit1)
         /\ b >= a
         /\ StartsWithAt(path, b + 1, lit2)
      THEN Match(<<SubSeq(path, c, RunEnd(path, c, Digit))>>)
      ELSE Match(<<SubSeq(path, 1, RunEnd(path, 1, Digit))>>)

\* re.match(r"(?:/wiki/spaces/[^/]+/pages/)?(\d+)", path).  The optional
\* prefix is tried first; when the rest fails after it, the match is retried
\* without the prefix.  [^/]+ is followed by "/", so its greedy run is the
\* only candidate.
ReConfluence(path) ==
  LET lit1 == <<"/", "wiki", "/", "spaces", "/">>
      lit2 == <<"/", "pages", "/">>
      a    == Len(lit1) + 1
      b    == RunEnd(path, a, NonSlash)
      c    == b + Len(lit2) + 1
      d    == RunEnd(path, c, Digit)
      d0   == RunEnd(path, 1, Digit)
  IN  IF /\ StartsWithAt(path, 1, lit1)
         /\ b >= a
         /\ StartsWithAt(path, b + 1, lit2)
         /\ d >= c
      THEN Match(<<SubSeq(path, c, d)>>)
      ELSE IF d0 >= 1 THEN Match(<<SubSeq(path, 1, d0)>>)
      ELSE NoMatch

\* [A-Za-z0-9]+-\d+ (first = Alnum) or [A-Za-z][A-Za-z0-9]*-\d+ (first =
\* Alpha) at position i: the greedy run of alphanumerics must end right
\* before the hyphen, since "-" is not alphanumeric.
KeyAt(path, i, first) ==
  LET e == RunEnd(path, i, Alnum)
      f == RunEnd(path, e + 2, Digit)
  IN  IF /\ i <= Len(path)
         /\ path[i] \in first
         /\ e + 1 <= Len(path)
         /\ path[e + 1] = "-"
         /\ f >= e + 2
      THEN Match(<<SubSeq(path, i, f)>>)
      ELSE NoMatch

\* re.match(r"(?:/browse/)?([A-Za-z0-9]+-\d+)", path)
ReJiraUrl(path) ==
  LET lit == <<"/", "browse", "/">>
      m1  == KeyAt(path, Len(lit) + 1, Alnum)
  IN  IF StartsWithAt(path, 1, lit) /\ m1.ok THEN m1
      ELSE KeyAt(path, 1, Alnum)

\* re.match(r"[A-Za-z][A-Za-z0-9]*-\d+", path); group(0) is the whole match
ReJiraBare(path) ==
  KeyAt(path, 1, Alpha)

\* re.match(r"/([^/]+)/([^/]+)/<kind>/(\d+)", path), kind = pull or issues
ReGithub(path, kind) ==
  LET a == 2
      b == RunEnd(path, a, NonSlash)
      c == b + 2
      d == RunEnd(path, c, NonSlash)
      lit == <<"/", kind, "/">>
      e == d + Len(lit) + 1
      f == RunEnd(path, e, Digit)
  IN  IF /\ StartsWithAt(path, 1, <<"/">>)
         /\ b >= a
         /\ StartsWithAt(path, b + 1, <<"/">>)
         /\ d >= c
         /\ StartsWithAt(path, d + 1, lit)
         /\ f >= e
      THEN Match(<<SubSeq(path, a, b), SubSeq(path, c, d), SubSeq(path, e, f)>>)
      ELSE NoMatch

RePull(path) ==
  ReGithub(path, "pull")

\* the pattern of PullRequest left in place in the copy that became Issue
ReIssues_PullToo(path) ==
  IF ReGithub(path, "issues").ok THEN ReGithub(path, "issues")
  ELSE ReGithub(path, "pull")

ReIssues(path) ==
  ReGithub(path, "issues")

(* ------------------------------------------------------------ extractors *)

\* match.group(1) if the pattern matched, else None
GroupOrNone(r) ==
  IF r.ok THEN PyStr(r.groups[1]) ELSE PyNone

\* PrInfo / IssueInfo(org=group(1), name=group(2), ident=int(group(3))) if
\* the pattern matched, else None
InfoOrNone(cls, r) ==
  IF r.ok THEN PyInfo(cls, r.groups[1], r.groups[2], IntOf(r.groups[3]))
  ELSE PyNone

\* the body of an extractor that has no fallback: u is urlparse(query), m is
\* url_matches(query), onMatch the value returned on the matching host
OnHostOnly(u, m, onMatch) ==
  IF u.raise THEN Raised("ValueError")
  ELSE IF m.tag = "raise" THEN m
  ELSE IF m.val THEN onMatch
  ELSE PyNone

\* Confluence.get_page_id
get_page_id(query) ==
  OnHostOnly(UrlParse(query), url_matches(service("Confluence"), query),
             GroupOrNone(ReConfluence(UrlParse(query).path)))

\* the body of Jira.get_issue_key, which has an else branch
OnHostOrElse(u, m, onMatch, otherwise) ==
  IF u.raise THEN Raised("ValueError")
  ELSE IF m.tag = "raise" THEN m
  ELSE IF m.val THEN onMatch
  ELSE otherwise

\* Jira.get_issue_key
get_issue_key(query) ==
  OnHostOrElse(UrlParse(query), url_matches(service("Jira"), query),
               GroupOrNone(ReJiraUrl(UrlParse(query).path)),
               GroupOrNone(ReJiraBare(UrlParse(query).path)))

\* the extractor without its url_matches test
get_pr_info_NoHostTest(cls, query) ==
  OnHostOnly(UrlParse(query), PyBool(TRUE),
             InfoOrNone("PrInfo", RePull(UrlParse(query).path)))

\* PullRequest.get_pr_info, for the subclass cls
get_pr_info(cls, query) ==
  OnHostOnly(UrlParse(query), url_matches(service(cls), query),
             InfoOrNone("PrInfo", RePull(UrlParse(query).path)))

\* Issue.get_issue_info, for the subclass cls
get_issue_info(cls, query) ==
  OnHostOnly(UrlParse(query), url_matches(service(cls), query),
             InfoOrNone("IssueInfo", ReIssues(UrlParse(query).path)))

\* the identifier the handler class cls computes from the query
Extract(cls, query) ==
  CASE cls = "Confluence" -> get_page_id(query)
    [] cls = "Jira"       -> get_issue_key(query)
    [] cls \in {"GithubPullRequest", "EcodesamsungPullRequest"}
                          -> get_pr_info(cls, query)
    [] cls \in {"GithubIssue", "EcodesamsungIssue"}
                          -> get_issue_info(cls, query)

\* cls.can_handle(query) == bool(cls.get_...(query))
can_handle(cls, query) ==
  PyTruth(Extract(cls, query))

(* ------------------------------------------------------------ the inputs *)

\* longest run of identifier characters in the first slot of a path
MaxIdLen ==
  3

\* longest run of digits in the last slot of a path
MaxTailLen ==
  1

\* registrations of an already registered class that are explored
MaxDupRegs ==
  1

IdChars ==
  {"K", "7", "-"}

Ids(n) ==
  UNION {[1..k -> IdChars] : k \in 0..n}

DigitRuns(n) ==
  UNION {[1..k -> Digit] : k \in 0..n}

Prefixes ==
  {<<>>, <<"/", "/">>, <<"https", ":">>, <<"https", ":", "/", "/">>}

Netlocs ==
  {<<>>,
   <<"smartthings", ".", "atlassian", ".", "net">>,
   <<"github", ".", "com">>,
   <<"github", ".", "ecodesamsung", ".", "com">>,
   <<"[">>}

Heads ==
  {<<>>, <<"/">>, <<"/", "wiki", "/", "spaces", "/">>, <<"/", "browse", "/">>,
   <<"/", "K", "/">>}

Joints ==
  {<<>>, <<"/">>, <<"/", "pages", "/">>, <<"/", "pull", "/">>,
   <<"/", "issues", "/">>}

QueriesOf(prefixes, ids, tails) ==
  {p \o n \o h \o i \o j \o t :
     p \in prefixes, n \in Netlocs, h \in Heads, i \in ids, j \in Joints,
     t \in tails}

\* the query strings the extractors are applied to
Queries ==
  QueriesOf(Prefixes, Ids(MaxIdLen), DigitRuns(MaxTailLen))

\* the command-line arguments `review` is run with
ArgvPrefixes ==
  {<<>>, <<"https", ":", "/", "/">>}

ArgvIds ==
  {<<>>, <<"K">>, <<"K", "-", "7">>}

Argv ==
  QueriesOf(ArgvPrefixes, ArgvIds, {<<"7">>})

(* ------------------------------------------------------------- the state *)

VARIABLES
  handlers,   \* QueryHandler._handlers, the set of registered classes
  dups,       \* number of registrations that found the class registered
  pc,         \* position of the program
  query,      \* the argument of `review`
  todo,       \* classes the loop of find_handler has not visited yet
  handler,    \* the result of find_handler
  reads,      \* environment variables looked up so far, in order
  ident,      \* page_id / issue_key / pr_info / issue_info of the instance
  calls,      \* remote calls issued so far, in order
  item,       \* the fetched page / issue / pull request
  out,        \* lines printed on standard output
  exc,        \* the exception that ended the command, if any
  probe       \* results of applying every extractor and predicate to query

vars ==
  <<handlers, dups, pc, query, todo, handler, reads, ident, calls, item, out,
    exc, probe>>

\* find_handler returned None
NoHandler ==
  "None"

\* the local variable `handler` of review before find_handler has returned
Unbound ==
  "unbound"

NoExc ==
  "none"

NoItem ==
  [title |-> "", link |-> ""]

NoProbe ==
  [h \in Variants |-> [ident |-> PyNone, can |-> PyBool(FALSE)]]

(* ---------------------------------------------- QueryHandler (registry) *)

\* set.add
SetAdd(s, x) ==
  s \cup {x}

\* QueryHandler.__call__(cls), the class decorator
Register(cls) ==
  /\ pc = "load"
  /\ cls \notin handlers \/ dups < MaxDupRegs
  /\ handlers' = SetAdd(handlers, cls)
  /\ dups' = IF cls \in handlers THEN dups + 1 ELSE dups
  /\ UNCHANGED <<pc, query, todo, handler, reads, ident, calls, item, out, exc,
                 probe>>

\* the module is loaded (every decorator has run) and cli() dispatches to
\* review(q); the for loop of find_handler starts
Invoke(q) ==
  /\ pc = "load"
  /\ handlers = Variants
  /\ pc' = "find"
  /\ query' = q
  /\ todo' = handlers
  /\ UNCHANGED <<handlers, dups, handler, reads, ident, calls, item, out, exc,
                 probe>>

\* `if handler.can_handle(query): return handler`, r being the value of the
\* call
OnCanHandle(r) ==
  IF r.tag = "raise" THEN [next |-> "fatal", exc |-> r.exc]
  ELSE IF r.val THEN [next |-> "return", exc |-> NoExc]
  ELSE [next |-> "continue", exc |-> NoExc]

\* `if handler.can_handle:` (the bound method, always true) in place of the call
LoopStep_NoCall(h, q) ==
  [next |-> "return", exc |-> NoExc]

\* what one iteration of the loop of find_handler does with the class h:
\* return it, go on, or let the exception of can_handle propagate
LoopStep(h, q) ==
  OnCanHandle(can_handle(h, q))

RECURSIVE find_handler(_, _)
\* QueryHandler.find_handler(query) when the set is iterated in the order
\* given: the class returned, NoHandler, or the exception raised
find_handler(order, q) ==
  IF order = <<>> THEN [ret |-> NoHandler, exc |-> NoExc]
  ELSE LET st == LoopStep(Head(order), q)
       IN  IF st.next = "continue" THEN find_handler(Tail(order), q)
           ELSE [ret |-> IF st.next = "return" THEN Head(order) ELSE Unbound,
                 exc |-> st.exc]

\* one iteration of `for handler in cls._handlers`, the set being iterated in
\* an order the language does not fix
FindStep ==
  /\ pc = "find"
  /\ \E h \in todo, nx \in {"fatal", "return", "continue"} :
       /\ nx = LoopStep(h, query).next
       /\ pc' = CASE nx = "fatal"  -> "fatal"
                  [] nx = "return" -> "construct"
                  [] OTHER         -> "find"
       /\ exc' = IF nx = "fatal" THEN "ValueError" ELSE exc
       /\ handler' = IF nx = "return" THEN h ELSE handler
       /\ todo' = IF nx = "continue" THEN todo \ {h} ELSE todo
  /\ UNCHANGED <<handlers, dups, query, reads, ident, calls, item, out, probe>>

\* the loop ends: find_handler returns None, `if handler:` is false and
\* review returns without printing
FindNone ==
  /\ pc = "find"
  /\ todo = {}
  /\ handler' = NoHandler
  /\ pc' = "exit"
  /\ UNCHANGED <<handlers, dups, query, todo, reads, ident, calls, item, out,
                 exc, probe>>

(* ------------------------------------------------- handler construction *)

\* the environment variables <Service>.__init__ looks up, in order
environ(svc) ==
  CASE svc \in {"ConfluenceService", "JiraService"}
                                   -> <<"ATLASSIAN_ID", "ATLASSIAN_TOKEN">>
    [] svc = "GithubService"       -> <<"GITHUB_TOKEN">>
    [] svc = "EcodesamsungService" -> <<"ECODESAMSUNG_TOKEN">>

\* os.environ.get(name): None when the variable is not set
os_environ_Get(name, present) ==
  IF present THEN PyStr(<<name>>) ELSE PyNone

\* os.environ[name]: the value, or KeyError when the variable is not set
os_environ(name, present) ==
  IF present THEN PyStr(<<name>>) ELSE Raised("KeyError")

\* `self.service()`: one lookup of <Service>.__init__.  Whether the variable
\* is set is an input of the run; each variable is looked up at most once.
\* After the last lookup the `api` property builds the client object, which
\* issues no request.
ReadEnv ==
  /\ pc = "construct"
  /\ LET vs == environ(service(handler))
         k  == Len(reads) + 1
     IN  \E present \in BOOLEAN :
           LET v == os_environ(vs[k], present)
           IN  /\ reads' = Append(reads, [name |-> vs[k], found |-> present])
               /\ IF v.tag = "raise"
                  THEN pc' = "fatal" /\ exc' = v.exc
                  ELSE /\ pc' = IF k = Len(vs) THEN "identify" ELSE "construct"
                       /\ exc' = exc
  /\ UNCHANGED <<handlers, dups, query, todo, handler, ident, calls, item, out,
                 probe>>

\* self.page_id = self.get_page_id(query), and likewise in the other classes
Identify ==
  /\ pc = "identify"
  /\ ident' = Extract(handler, query)
  /\ pc' = IF ident'.tag = "raise" THEN "fatal" ELSE "fetch"
  /\ exc' = IF ident'.tag = "raise" THEN "ValueError" ELSE exc
  /\ UNCHANGED <<handlers, dups, query, todo, handler, reads, calls, item, out,
                 probe>>

IsGithub(h) ==
  h \in {"GithubPullRequest", "EcodesamsungPullRequest", "GithubIssue",
         "EcodesamsungIssue"}

\* the requests the constructor of h issues, in order
requests(h) ==
  CASE h = "Confluence" -> <<"get_page_by_id">>
    [] h = "Jira"       -> <<"issue">>
    [] h \in {"GithubPullRequest", "EcodesamsungPullRequest"}
                        -> <<"get_repo", "get_pull">>
    [] h \in {"GithubIssue", "EcodesamsungIssue"}
                        -> <<"get_repo", "get_issue">>

\* the exception of the client swallowed
after_request_Swallow(ok, last) ==
  IF last THEN "ready" ELSE "fetch"

\* where the constructor goes after a request: an exception of the client
\* is not caught anywhere, so it ends the command
after_request(ok, last) ==
  IF ~ok THEN "fatal"
  ELSE IF last THEN "ready"
  ELSE "fetch"

\* the requests of the constructor, one at a time; whether the remote service
\* answers or the client raises is an input of the run.  The GitHub classes
\* read self.pr_info.repo / self.issue_info.repo first, which raises
\* AttributeError on None before any request is issued.
Fetch ==
  /\ pc = "fetch"
  /\ IF IsGithub(handler) /\ ident.tag = "None"
     THEN /\ pc' = "fatal"
          /\ exc' = "AttributeError"
          /\ UNCHANGED <<calls, item>>
     ELSE LET rs == requests(handler)
              k  == Len(calls) + 1
          IN  \E ok \in BOOLEAN :
                LET nx == after_request(ok, k = Len(rs))
                IN  /\ calls' = Append(calls,
                                       [op |-> rs[k], arg |-> ident, ok |-> ok])
                    /\ pc' = nx
                    /\ exc' = IF nx = "fatal" THEN "RemoteError" ELSE exc
                    /\ item' = IF nx = "ready"
                               THEN [title |-> "Title", link |-> "html_url"]
                               ELSE item
  /\ UNCHANGED <<handlers, dups, query, todo, handler, reads, ident, out, probe>>

(* ---------------------------------------------------------------- review *)

\* the `review` property of the instance: "[[<link>|<label>]]"
review(h, id, it) ==
  CASE h = "Confluence" ->
         [link |-> <<it.link>>, label |-> <<"Confluence">>, title |-> it.title]
    [] h = "Jira" ->
         [link |-> url(service(h)) \o <<"/", "browse", "/">> \o id.val,
          label |-> id.val, title |-> it.title]
    [] h \in {"GithubPullRequest", "EcodesamsungPullRequest"} ->
         [link |-> url(service(h)) \o <<"/">> \o id.org \o <<"/">> \o id.name
                     \o <<"/", "pull", "/", ToString(id.ident)>>,
          label |-> id.name \o <<"#", ToString(id.ident)>>, title |-> it.title]
    [] h \in {"GithubIssue", "EcodesamsungIssue"} ->
         [link |-> <<it.link>>,
          label |-> id.name \o <<"#", ToString(id.ident)>>, title |-> it.title]

\* print(handler(query).review)
PrintReview ==
  /\ pc = "ready"
  /\ out' = Append(out, review(handler, ident, item))
  /\ pc' = "exit"
  /\ UNCHANGED <<handlers, dups, query, todo, handler, reads, ident, calls,
                 item, exc, probe>>

(* -------------------------------------------------------- specifications *)

Init ==
  /\ handlers = {}
  /\ dups = 0
  /\ pc = "load"
  /\ query = <<>>
  /\ todo = {}
  /\ handler = Unbound
  /\ reads = <<>>
  /\ ident = PyNone
  /\ calls = <<>>
  /\ item = NoItem
  /\ out = <<>>
  /\ exc = NoExc
  /\ probe = NoProbe

Next ==
  \/ \E cls \in Variants : Register(cls)
  \/ \E q \in Argv : Invoke(q)
  \/ FindStep
  \/ FindNone
  \/ ReadEnv
  \/ Identify
  \/ Fetch
  \/ PrintReview

Spec ==
  Init /\ [][Next]_vars

\* The extractors and predicates as pure functions: every class's extractor
\* and can_handle applied to one query of Queries.
InitExtract ==
  /\ handlers = Variants
  /\ dups = 0
  /\ pc = "probe"
  /\ query \in Queries
  /\ todo = {}
  /\ handler = Unbound
  /\ reads = <<>>
  /\ ident = PyNone
  /\ calls = <<>>
  /\ item = NoItem
  /\ out = <<>>
  /\ exc = NoExc
  /\ probe = NoProbe

Probe ==
  /\ pc = "probe"
  /\ probe' = [h \in Variants |->
                 [ident |-> Extract(h, query), can |-> can_handle(h, query)]]
  /\ pc' = "probed"
  /\ UNCHANGED <<handlers, dups, query, todo, handler, reads, ident, calls,
                 item, out, exc>>

NextExtract ==
  Probe

SpecExtract ==
  InitExtract /\ [][NextExtract]_vars

(* ---------------------------------------------------------------- claims *)

IsTrue(b) ==
  b.tag = "bool" /\ b.val

Claimants ==
  {h \in Variants : IsTrue(probe[h].can)}

\* C1: for every registered class and every query, can_handle(query) returns
\* true if and only if the extractor of the class returns an identifier, that
\* is, returns something other than None.
C1_CanHandleIffExtract ==
  pc = "probed" =>
    \A h \in Variants :
      IsTrue(probe[h].can) <=> probe[h].ident.tag \notin {"None", "raise"}

C1_Witness ==
  /\ pc = "probed"
  /\ IsTrue(probe["Confluence"].can)
  /\ probe["Confluence"].ident.tag = "str"
  /\ ~IsTrue(probe["Jira"].can)

\* C3: for every query, at most one of the six registered classes has
\* can_handle(query) true.
C3_AtMostOneClaimant ==
  pc = "probed" => Cardinality(Claimants) <= 1

C3_Witness ==
  /\ pc = "probed"
  /\ Claimants = {"Jira"}
  /\ IsTrue(url_matches(service("Jira"), query))

\* the host of each service, as the claim names them
ClaimHost(h) ==
  CASE h \in {"Confluence", "Jira"} ->
         <<"smartthings", ".", "atlassian", ".", "net">>
    [] h \in {"GithubPullRequest", "GithubIssue"} ->
         <<"github", ".", "com">>
    [] h \in {"EcodesamsungPullRequest", "EcodesamsungIssue"} ->
         <<"github", ".", "ecodesamsung", ".", "com">>

IsKey(s) ==
  LET e == RunEnd(s, 1, Alnum)
  IN  /\ Len(s) >= 3
      /\ s[1] \in Alpha
      /\ e + 1 <= Len(s)
      /\ s[e + 1] = "-"
      /\ e + 2 <= Len(s)
      /\ RunEnd(s, e + 2, Digit) = Len(s)

\* C5: every issue key get_issue_key returns, on the branch of a matching host
\* and on the bare-key branch, begins with a letter, continues with
\* alphanumerics, then a hyphen, then one or more digits.
C5_KeyFormat ==
  (pc = "probed" /\ probe["Jira"].ident.tag = "str") =>
    IsKey(probe["Jira"].ident.val)

PostFind ==
  pc \notin {"load", "find", "probe", "probed"}

\* C2: find_handler returns None exactly when no registered class has
\* can_handle(query) true, and otherwise returns a registered class whose
\* can_handle(query) is true; when it returns None, review prints nothing,
\* looks up no credential, issues no request and ends successfully.
C2_FindHandlerContract ==
  PostFind =>
    /\ handler = NoHandler <=> \A h \in handlers : ~IsTrue(can_handle(h, query))
    /\ handler \notin {NoHandler, Unbound} =>
         handler \in handlers /\ IsTrue(can_handle(handler, query))
    /\ handler = NoHandler =>
         /\ out = <<>>
         /\ reads = <<>>
         /\ calls = <<>>
         /\ pc = "exit"
         /\ exc = NoExc

\* C6: for a query that cannot be parsed as a URL nothing raises: no class
\* matches, find_handler returns None and review ends without output and
\* without an error.
C6_MalformedIsUnrecognized ==
  (PostFind /\ UrlParse(query).raise) =>
    /\ exc = NoExc
    /\ handler = NoHandler
    /\ pc = "exit"
    /\ out = <<>>

\* the credential variables of each class, as the claim names them
ClaimCredentials(h) ==
  CASE h \in {"Confluence", "Jira"} -> {"ATLASSIAN_ID", "ATLASSIAN_TOKEN"}
    [] h \in {"GithubPullRequest", "GithubIssue"} -> {"GITHUB_TOKEN"}
    [] h \in {"EcodesamsungPullRequest", "EcodesamsungIssue"} ->
         {"ECODESAMSUNG_TOKEN"}
    [] OTHER -> {}

\* C7: when a credential variable the handler needs is not set, construction
\* raises before any request is issued and nothing is printed; every request
\* is preceded by the lookup of every credential of the handler.
C7_CredentialsBeforeFetch ==
  /\ (\E i \in 1..Len(reads) : ~reads[i].found) =>
       /\ pc = "fatal"
       /\ exc = "KeyError"
       /\ calls = <<>>
       /\ out = <<>>
  /\ calls # <<>> =>
       \A v \in ClaimCredentials(handler) :
         \E i \in 1..Len(reads) : reads[i].name = v /\ reads[i].found

C7_Witness ==
  /\ handler = "Confluence"
  /\ exc = "KeyError"
  /\ Len(reads) = 2
  /\ reads[2] = [name |-> "ATLASSIAN_TOKEN", found |-> FALSE]

\* C8: a request that fails ends the command with the error: no request
\* follows it, no request is issued twice and nothing is printed; a review
\* string is printed only after every request has succeeded.
C8_FetchFailureIsFatal ==
  /\ \A i \in 1..Len(calls) :
       ~calls[i].ok =>
         /\ i = Len(calls)
         /\ pc = "fatal"
         /\ exc = "RemoteError"
         /\ out = <<>>
  /\ \A i, j \in 1..Len(calls) : calls[i].op = calls[j].op => i = j
  /\ out # <<>> =>
       /\ Len(out) = 1
       /\ Len(calls) = Len(requests(handler))
       /\ \A i \in 1..Len(calls) : calls[i].ok

C8_Witness ==
  /\ handler = "Jira"
  /\ pc = "fatal"
  /\ exc = "RemoteError"
  /\ Len(calls) = 1
  /\ ~calls[1].ok

\* C9: a handler is instantiated only after find_handler returned it for the
\* same query, and the identifier its constructor recomputes is not None when
\* a request is issued.
C9_IdentifiedBeforeFetch ==
  /\ pc \in {"construct", "identify", "fetch", "ready"} =>
       handler \in handlers /\ IsTrue(can_handle(handler, query))
  /\ pc \in {"fetch", "ready"} =>
       ident.tag \notin {"None", "raise"} /\ ident = Extract(handler, query)
  /\ \A i \in 1..Len(calls) : calls[i].arg.tag \notin {"None", "raise"}

C9_Witness ==
  /\ handler = "GithubPullRequest"
  /\ Len(calls) = 2
  /\ calls[2].arg.tag = "PrInfo"

\* the order in which the decorators register the classes
RegistrationOrder ==
  <<"Confluence", "Jira", "GithubPullRequest", "EcodesamsungPullRequest",
    "GithubIssue", "EcodesamsungIssue">>

FindOutcome ==
  [ret |-> handler, exc |-> IF handler = Unbound THEN exc ELSE NoExc]

JustFound ==
  \/ pc = "construct" /\ reads = <<>>
  \/ pc = "exit" /\ handler = NoHandler
  \/ pc = "fatal" /\ handler = Unbound

\* C10: registering a class that is already registered leaves the registry
\* unchanged, and what find_handler returns for a query is the same under
\* every order of registration and every order in which the registry is
\* iterated: whatever order the loop took, its outcome is the outcome of the
\* iteration in the order of registration of the source.
C10_OrderIndependent ==
  /\ [](JustFound =>
          /\ handlers = Variants
          /\ FindOutcome = find_handler(RegistrationOrder, query))
  /\ [][dups' # dups => handlers' = handlers]_vars

C10_Witness ==
  /\ pc = "construct"
  /\ dups = 1
  /\ handler = "GithubIssue"

====
